---- MODULE Spec2Model ----
(***************************************************************************)
(* Virtual Tattoo Studio: the layer store, the per-layer interaction       *)
(* controller (TattooLayer) and the export routine of App.                 *)
(*                                                                         *)
(* Numbers.  The source computes with JavaScript doubles; the model keeps  *)
(* integers in these units:                                                *)
(*   - coordinates and sizes (x, y, width, height, pointer) in pixels;     *)
(*   - scale in hundredths (scale = 100 is the source's 1, 10 is 0.1);     *)
(*   - the export bounding box in hundredths of a pixel (width * scale).   *)
(* A rotation is kept exactly, as the triple <<d, y, x>> that stands for   *)
(* d + atan2(y, x) * (180 / pi) degrees: d is a whole number of degrees    *)
(* and (x, y) a direction in the first half of the first quadrant, with    *)
(* 0 <= y < x and no common divisor (<<d, 0, 1>> is d degrees).  Angles    *)
(* are added by multiplying the directions as complex numbers.             *)
(* Math.sqrt is rounded to the nearest hundredth of scale.                 *)
(* Layer ids are the clock reading n of `layer-${Date.now()}`.             *)
(***************************************************************************)
EXTENDS Integers, Sequences, FiniteSets, TLC

VARIABLES
    layers,          \* useState<Layer[]>            (part_000:299)
    selectedLayerId, \* useState<string | null>      (part_000:300)
    interactionRef,  \* the TattooLayer instances with listeners on window, in
                     \* the order of their addEventListener, each with its
                     \* interactionRef.current
    pendingDrops,    \* handleCanvasDrop calls awaiting getImageDimensions
    clock,           \* the last reading of Date.now()
    events,          \* number of mouse-down, slider and export events so far
    lastEvent,       \* history: the pointer event handled last and the id of its
                     \* target, <<"other", NULL>> after any other handler
    exports,         \* the calls of handleExport so far, each with its position
                     \* and its locals: fixedLayers, the bounding box, the
                     \* canvas and the state of each new Image()
    download         \* the files handed to the user by link.click()

vars == <<layers, selectedLayerId, interactionRef, pendingDrops, clock,
          events, lastEvent, exports, download>>

editorVars == <<layers, selectedLayerId, interactionRef, pendingDrops, clock,
                events, lastEvent>>
exportVars == <<exports, download>>

----------------------------------------------------------------------------
(* Bounds *)
MaxLayers  == 2    \* layers in the store plus drops in flight
MaxEvents  == 2    \* mouse-down, slider and export events in one run
MaxExportLayers == 2 \* layers in the store an export starts from
MaxExports == 1    \* calls of handleExport in one run

(* Program constants *)
initialWidth == 150      \* part_000:340
MinScale     == 10       \* Math.max(0.1, ...)  part_000:247, in hundredths
Infinity     == 1000000000 \* part_000:384
NULL         == -1       \* null of selectedLayerId

(* Inputs *)
ClockReadings == 0..1           \* readings of Date.now(), in milliseconds
Assets       == {1}             \* the sample asset of part_000:296-298
DropPoints   == {<<75, 75>>}
LibraryAssets == {1, 2, 3, 4}   \* it and the assets an upload adds
\* img.width, img.height of the image of an asset
NaturalSize(a) ==
    IF a = 1 THEN <<200, 200>>
    ELSE IF a = 2 THEN <<200, 100>>
    ELSE IF a = 3 THEN <<100, 200>>
    ELSE <<300, 200>>
LibraryDropPoints == {<<50, 50>>, <<75, 75>>}
PressPoints  == {<<100, 100>>}              \* pointer at a mousedown
Points       == {<<200, 175>>, <<0, 25>>}    \* pointer at a mousemove
InteractionTypes == {"move", "scale", "rotate"}
SliderInputs == { <<"scale", 10>>, <<"brightness", 0>> }

----------------------------------------------------------------------------
(* Arithmetic of the source *)
Abs(n) == IF n < 0 THEN -n ELSE n
Min(a, b) == IF a < b THEN a ELSE b
Max(a, b) == IF a > b THEN a ELSE b

\* Math.sqrt(Math.pow(dx, 2) + Math.pow(dy, 2)), to the nearest integer:
\* the r with (r - 1/2)^2 <= dx^2 + dy^2 < (r + 1/2)^2
Hypot(dx, dy) ==
    LET n == dx * dx + dy * dy
    IN CHOOSE r \in 0..(Abs(dx) + Abs(dy)) :
          /\ r = 0 \/ (2 * r - 1) * (2 * r - 1) <= 4 * n
          /\ 4 * n < (2 * r + 1) * (2 * r + 1)

----------------
(* Angles *)
Deg(d) == <<d, 0, 1>>

RECURSIVE Gcd(_, _)
Gcd(a, b) == IF b = 0 THEN a ELSE Gcd(b, a % b)

\* d degrees + the direction of (x, y), for x > 0 and y >= 0: a direction at
\* 45 degrees or more is turned back by 45 degrees, (x + iy)(1 - i)
Normal(d, y, x) ==
    LET t == IF y >= x THEN <<d + 45, y - x, x + y>> ELSE <<d, y, x>>
        g == Gcd(t[3], t[2])
    IN <<t[1], t[2] \div g, t[3] \div g>>

\* originalRotation + angle
AngleSum(r, s) ==
    Normal(r[1] + s[1], r[3] * s[2] + r[2] * s[3], r[3] * s[3] - r[2] * s[2])

\* Math.atan2(vy, vx) * (180 / Math.PI), in (-180, 180]; atan2(0, 0) is 0
Atan2Deg(vy, vx) ==
    IF vy = 0 THEN (IF vx >= 0 THEN Deg(0) ELSE Deg(180))
    ELSE IF vy > 0
    THEN (IF vx > 0 THEN Normal(0, vy, vx) ELSE Normal(90, -vx, vy))
    ELSE (IF vx < 0 THEN Normal(-180, -vy, -vx) ELSE Normal(-90, vx, -vy))

\* tan(k degrees) * 10^8 for k = 1..44, rounded down
WholeDegreeTan ==
    << 1745506, 3492076, 5240777, 6992681, 8748866, 10510423, 12278456,
       14054083, 15838444, 17632698, 19438030, 21255656, 23086819, 24932800,
       26794919, 28674538, 30573068, 32491969, 34432761, 36397023, 38386403,
       40402622, 42447481, 44522868, 46630765, 48773258, 50952544, 53170943,
       55430905, 57735026, 60086061, 62486935, 64940759, 67450851, 70020753,
       72654252, 75355405, 78128562, 80978403, 83909963, 86928673, 90040404,
       93251508, 96568877 >>

\* the whole degrees in atan(y / x) for 0 <= y < x: the number of whole
\* degree marks below y / x, which is compared as (y / x) * 10^8 rounded down
OctantDeg(y, x) ==
    LET q == (y * 10000) \div x
        r == (y * 10000) % x
        ratio == q * 10000 + (r * 10000) \div x
    IN Cardinality({ k \in 1..44 : WholeDegreeTan[k] <= ratio })

\* the whole degrees in a rotation, rounded down
WholeDegrees(r) == r[1] + OctantDeg(r[2], r[3])

\* rotation % 360: the multiples of 360 are taken off towards zero, so
\* the result has the sign of the rotation
Mod360(r) ==
    LET w == WholeDegrees(r)
        m == IF w >= 0 THEN w
             ELSE IF r[2] = 0 THEN -w ELSE -w - 1      \* the whole degrees in |r|
    IN IF w >= 0 THEN <<r[1] - 360 * (m \div 360), r[2], r[3]>>
       ELSE <<r[1] + 360 * (m \div 360), r[2], r[3]>>

----------------------------------------------------------------------------
(* Layer store *)
\* layers.find(l => l.id === id): index of the first match, 0 when none
FindIndex(ls, id) ==
    IF \E i \in 1..Len(ls) : ls[i].id = id
    THEN CHOOSE i \in 1..Len(ls) :
            ls[i].id = id /\ \A j \in 1..(i - 1) : ls[j].id # id
    ELSE 0

\* the same with isFixed back at its initial value unless updates has it
MergeUnfix(l, upd) ==
    [f \in DOMAIN l |-> IF f \in DOMAIN upd THEN upd[f]
                        ELSE IF f = "isFixed" THEN FALSE ELSE l[f]]

\* { ...l, ...updates }
Merge(l, upd) ==
    [f \in DOMAIN l |-> IF f \in DOMAIN upd THEN upd[f] ELSE l[f]]

\* the same with the updates merged into every layer
handleUpdateLayerAll(ls, id, upd) ==
    [i \in 1..Len(ls) |-> Merge(ls[i], upd)]

\* prev.map(l => l.id === id ? { ...l, ...updates } : l)
handleUpdateLayer(ls, id, upd) ==
    [i \in 1..Len(ls) |-> IF ls[i].id = id THEN Merge(ls[i], upd) ELSE ls[i]]

\* prev.filter(l => l.id !== id)
FilterOut(ls, id) == SelectSeq(ls, LAMBDA l : l.id # id)

selectedLayer == FindIndex(layers, selectedLayerId)

\* PropertiesPanel renders its sliders and buttons only for a selected,
\* non-fixed layer (part_000:124)
PanelShown == selectedLayer # 0 /\ ~layers[selectedLayer].isFixed

----------------------------------------------------------------------------
(* Rendering.  App renders again after every change of its state, and      *)
(* every TattooLayer with it: each render makes new handleMouseMove and     *)
(* handleMouseUp functions, while interactionRef stays with the instance.   *)
(* The listeners on window are the functions of the render in which the     *)
(* pointer went down; listener tells whether that is still the render on    *)
(* screen, which is when addEventListener finds the function registered.    *)

\* the sessions after a render
Rendered(ss) == [k \in 1..Len(ss) |-> [ss[k] EXCEPT !.listener = FALSE]]

\* The TattooLayer instances are the children of the list keyed by layer.id
\* (part_000:484-485).  Where the instance at index j of the list old is in
\* the list new, 0 when it is unmounted: React keeps the children up to the
\* first index where the keys differ; from there on it finds the instances
\* by key, the last one of a key that several carry, for the first child
\* with that key.
Remount(old, new, j) ==
    LET m == Min(Len(old), Len(new))
        p == CHOOSE q \in 0..m :
                /\ \A i \in 1..q : old[i].id = new[i].id
                /\ q = m \/ old[q + 1].id # new[q + 1].id
        found == { n \in (p + 1)..Len(new) : new[n].id = old[j].id }
    IN IF j <= p THEN j
       ELSE IF \E n \in (j + 1)..Len(old) : old[n].id = old[j].id THEN 0
       ELSE IF found = {} THEN 0
       ELSE CHOOSE n \in found : \A n2 \in found : n <= n2

\* the sessions after a render of the list new in place of the list old
Reconciled(ss, old, new) ==
    [k \in 1..Len(ss) |->
        [ss[k] EXCEPT !.listener = FALSE,
                      !.inst = IF @ = 0 THEN 0 ELSE Remount(old, new, @)]]

----------------
(* Drop-to-place *)

\* the same with the aspect ratio of the image ignored
NewLayerSquare(u, now, asset, px, py, w, h) ==
    LET height == u * initialWidth
    IN [ id         |-> now,
         src        |-> asset,
         x          |-> u * px - ((u * initialWidth) \div 2),
         y          |-> u * py - (height \div 2),
         width      |-> u * initialWidth,
         height     |-> height,
         scale      |-> 100,
         rotation   |-> Deg(0),
         brightness |-> 100,
         contrast   |-> 100,
         isFixed    |-> FALSE ]

\* the Layer literal of handleCanvasDrop; (px, py) is the drop point
\* relative to the canvas in pixels, (w, h) the natural size of the image;
\* x, y, width and height of the result are in 1/u pixel
NewLayerU(u, now, asset, px, py, w, h) ==
    LET height == (u * initialWidth * h) \div w     \* initialWidth / aspectRatio
    IN [ id         |-> now,
         src        |-> asset,
         x          |-> u * px - ((u * initialWidth) \div 2),
         y          |-> u * py - (height \div 2),
         width      |-> u * initialWidth,
         height     |-> height,
         scale      |-> 100,
         rotation   |-> Deg(0),
         brightness |-> 100,
         contrast   |-> 100,
         isFixed    |-> FALSE ]

\* in whole pixels
NewLayer(now, asset, px, py, w, h) == NewLayerU(1, now, asset, px, py, w, h)

\* handleCanvasDrop up to its await
CanvasDrop(asset, pt) ==
    /\ Len(layers) + Len(pendingDrops) < MaxLayers
    /\ pendingDrops' = Append(pendingDrops, [asset |-> asset, px |-> pt[1], py |-> pt[2]])
    /\ UNCHANGED <<layers, selectedLayerId, interactionRef, clock, events>>
    /\ lastEvent' = <<"other", NULL>>
    /\ UNCHANGED exportVars

RemoveAt(q, k) == [i \in 1..(Len(q) - 1) |-> IF i < k THEN q[i] ELSE q[i + 1]]

\* getImageDimensions resolved: the rest of handleCanvasDrop.  now is the
\* reading of Date.now(), which never runs backwards; the geometry of the
\* new layer is in 1/u pixel.
DropResolveU(u, k, now) ==
    /\ k \in 1..Len(pendingDrops)
    /\ now >= clock
    /\ clock' = now
    /\ LET d == pendingDrops[k]
           n == NaturalSize(d.asset)
           newLayer == NewLayerU(u, now, d.asset, d.px, d.py, n[1], n[2])
       IN /\ layers' = Append(layers, newLayer)
          /\ selectedLayerId' = newLayer.id
    /\ pendingDrops' = RemoveAt(pendingDrops, k)
    /\ interactionRef' = Rendered(interactionRef)
    /\ UNCHANGED events
    /\ lastEvent' = <<"other", NULL>>
    /\ UNCHANGED exportVars

\* in whole pixels
DropResolve(k, now) == DropResolveU(1, k, now)

\* getImageDimensions rejected (img.onerror): the await throws
DropReject(k) ==
    /\ k \in 1..Len(pendingDrops)
    /\ pendingDrops' = RemoveAt(pendingDrops, k)
    /\ UNCHANGED <<layers, selectedLayerId, interactionRef, clock, events>>
    /\ lastEvent' = <<"other", NULL>>
    /\ UNCHANGED exportVars

----------------------------------------------------------------------------------------------------------------------------------------
(* Interaction controller: TattooLayer *)

\* the anchor recorded by handleMouseDown.  The rendered box of the layer is
\* rotated and scaled about its own centre, so the centre of
\* getBoundingClientRect() relative to the canvas is (x + width/2,
\* y + height/2).  originalWidth and originalHeight are never read.
Anchor(l, type, pt) ==
    [ type             |-> type,
      startX           |-> pt[1],
      startY           |-> pt[2],
      originalX        |-> l.x,
      originalY        |-> l.y,
      originalScale    |-> l.scale,
      originalRotation |-> l.rotation,
      centerX          |-> l.x + (l.width \div 2),
      centerY          |-> l.y + (l.height \div 2) ]

\* handleMouseDown past its guard, for the instance of layers[i]:
\* onSelect(layer.id), which renders when it changes the selection, the
\* anchor, and the two addEventListener.  An instance whose listeners are
\* those of the render on screen keeps them where they are; otherwise its
\* new listeners go to the end, and the ones it had run with the same anchor
\* and the same id, so they add nothing.
Pressed(i, type, pt) ==
    LET l == layers[i]
        renders == selectedLayerId # l.id
        s == [ inst |-> i, id |-> l.id, listener |-> TRUE,
               anchor |-> Anchor(l, type, pt) ]
        ss == IF \E k \in 1..Len(interactionRef) :
                    interactionRef[k].inst = i /\ interactionRef[k].listener
              THEN [k \in 1..Len(interactionRef) |->
                      IF interactionRef[k].inst = i THEN s ELSE interactionRef[k]]
              ELSE Append(SelectSeq(interactionRef, LAMBDA e : e.inst # i), s)
    IN IF renders THEN Rendered(ss) ELSE ss

\* the same without the early return for a fixed layer
MouseDownUnguarded(i, type, pt) ==
    /\ i \in 1..Len(layers)
    /\ type # "move" => (selectedLayerId = layers[i].id /\ ~layers[i].isFixed)
    /\ events < MaxEvents
    /\ events' = events + 1
    /\ selectedLayerId' = layers[i].id
    /\ interactionRef' = Pressed(i, type, pt)
    /\ UNCHANGED <<layers, pendingDrops, clock>>
    /\ lastEvent' = <<"mousedown", layers[i].id>>
    /\ UNCHANGED exportVars

\* handleMouseDown of the element of layers[i]; the two handles exist only
\* while the layer is selected and not fixed (part_000:275)
MouseDown(i, type, pt) ==
    /\ i \in 1..Len(layers)
    /\ type # "move" => (selectedLayerId = layers[i].id /\ ~layers[i].isFixed)
    /\ events < MaxEvents
    /\ events' = events + 1
    /\ IF layers[i].isFixed
       THEN UNCHANGED <<selectedLayerId, interactionRef>>
       ELSE /\ selectedLayerId' = layers[i].id
            /\ interactionRef' = Pressed(i, type, pt)
    /\ UNCHANGED <<layers, pendingDrops, clock>>
    /\ lastEvent' = <<"mousedown", layers[i].id>>
    /\ UNCHANGED exportVars

\* the same without the Math.max(0.1, ...) of the scale branch
MoveUpdatesUnclamped(s, pt) ==
    LET dx == pt[1] - s.startX
        dy == pt[2] - s.startY
    IN IF s.type = "move"
       THEN [x |-> s.originalX + dx, y |-> s.originalY + dy]
       ELSE IF s.type = "scale"
       THEN LET scaleFactor == Hypot(dx, dy)
                newScale == IF pt[1] > s.startX
                            THEN s.originalScale + scaleFactor
                            ELSE s.originalScale - scaleFactor
            IN [scale |-> newScale]
       ELSE LET angle == Atan2Deg(pt[2] - s.startY - s.centerY + s.originalY,
                                  pt[1] - s.startX - s.centerX + s.originalX)
            IN [rotation |-> Mod360(AngleSum(s.originalRotation, angle))]

\* the same with the direction of the scale branch taken from the vertical
\* displacement
MoveUpdatesVertical(s, pt) ==
    LET dx == pt[1] - s.startX
        dy == pt[2] - s.startY
    IN IF s.type = "move"
       THEN [x |-> s.originalX + dx, y |-> s.originalY + dy]
       ELSE IF s.type = "scale"
       THEN LET scaleFactor == Hypot(dx, dy)
                newScale == IF pt[2] > s.startY
                            THEN s.originalScale + scaleFactor
                            ELSE s.originalScale - scaleFactor
            IN [scale |-> Max(MinScale, newScale)]
       ELSE LET angle == Atan2Deg(pt[2] - s.startY - s.centerY + s.originalY,
                                  pt[1] - s.startX - s.centerX + s.originalX)
            IN [rotation |-> Mod360(AngleSum(s.originalRotation, angle))]

\* the partial that handleMouseMove passes to onUpdate
MoveUpdates(s, pt) ==
    LET dx == pt[1] - s.startX
        dy == pt[2] - s.startY
    IN IF s.type = "move"
       THEN [x |-> s.originalX + dx, y |-> s.originalY + dy]
       ELSE IF s.type = "scale"
       THEN LET scaleFactor == Hypot(dx, dy)
                newScale == IF pt[1] > s.startX
                            THEN s.originalScale + scaleFactor
                            ELSE s.originalScale - scaleFactor
            IN [scale |-> Max(MinScale, newScale)]
       ELSE LET angle == Atan2Deg(pt[2] - s.startY - s.centerY + s.originalY,
                                  pt[1] - s.startX - s.centerX + s.originalX)
            IN [rotation |-> Mod360(AngleSum(s.originalRotation, angle))]

\* every registered handleMouseMove runs on a mousemove of the window, in
\* the order of registration: ss[k..] applied to ls
RECURSIVE RunMouseMove(_, _, _, _)
RunMouseMove(ls, ss, k, pt) ==
    IF k > Len(ss) THEN ls
    ELSE RunMouseMove(handleUpdateLayer(ls, ss[k].id, MoveUpdates(ss[k].anchor, pt)),
                      ss, k + 1, pt)

\* a mousemove of the window at pt; each onUpdate sets the state
MouseMove(pt) ==
    /\ layers' = RunMouseMove(layers, interactionRef, 1, pt)
    /\ interactionRef' = Rendered(interactionRef)
    /\ UNCHANGED <<selectedLayerId, pendingDrops, clock, events>>
    /\ lastEvent' = <<"mousemove", NULL>>
    /\ UNCHANGED exportVars

NoSession == <<>>

\* the same with the anchors kept
MouseUpKeep ==
    /\ interactionRef' = interactionRef
    /\ UNCHANGED <<layers, selectedLayerId, pendingDrops, clock, events>>
    /\ lastEvent' = <<"mouseup", NULL>>
    /\ UNCHANGED exportVars

\* every registered handleMouseUp runs on a mouseup of the window: each
\* clears the anchor of its instance and removes its two listeners
MouseUp ==
    /\ interactionRef' = NoSession
    /\ UNCHANGED <<layers, selectedLayerId, pendingDrops, clock, events>>
    /\ lastEvent' = <<"mouseup", NULL>>
    /\ UNCHANGED exportVars

----------------------------------------------------------------------------
(* Selection, properties panel.  The buttons and sliders can be operated   *)
(* from the keyboard, so they are enabled while a session is in flight.    *)

\* setSelectedLayerId(id), which renders when it changes the selection
Selected(id) ==
    IF selectedLayerId # id THEN Rendered(interactionRef) ELSE interactionRef

\* onClick of the wrapper of layers[i] (part_000:485)
ClickLayer(i) ==
    /\ i \in 1..Len(layers)
    /\ selectedLayerId' = layers[i].id
    /\ interactionRef' = Selected(layers[i].id)
    /\ UNCHANGED <<layers, pendingDrops, clock, events>>
    /\ lastEvent' = <<"other", NULL>>
    /\ UNCHANGED exportVars

\* onClick of <main> (part_000:475)
ClickCanvas ==
    /\ selectedLayerId' = NULL
    /\ interactionRef' = Selected(NULL)
    /\ UNCHANGED <<layers, pendingDrops, clock, events>>
    /\ lastEvent' = <<"other", NULL>>
    /\ UNCHANGED exportVars

\* PropertiesPanel.handleSliderChange(prop, value)
handleSliderChange(prop, value) ==
    /\ PanelShown
    /\ events < MaxEvents
    /\ layers' = handleUpdateLayer(layers, layers[selectedLayer].id,
                                   [p \in {prop} |-> value])
    /\ events' = events + 1
    /\ interactionRef' = Rendered(interactionRef)
    /\ UNCHANGED <<selectedLayerId, pendingDrops, clock>>
    /\ lastEvent' = <<"other", NULL>>
    /\ UNCHANGED exportVars

\* handleFixLayer(id), from the Fix Tattoo button
handleFixLayer(id) ==
    /\ layers' = handleUpdateLayer(layers, id, [isFixed |-> TRUE])
    /\ selectedLayerId' = NULL
    /\ interactionRef' = Rendered(interactionRef)
    /\ UNCHANGED <<pendingDrops, clock, events>>
    /\ lastEvent' = <<"other", NULL>>
    /\ UNCHANGED exportVars

FixButton == PanelShown /\ handleFixLayer(layers[selectedLayer].id)

\* the same with the selection left as it is
handleDeleteLayerKeep(id) ==
    /\ layers' = FilterOut(layers, id)
    /\ selectedLayerId' = selectedLayerId
    /\ interactionRef' = Reconciled(interactionRef, layers, FilterOut(layers, id))
    /\ UNCHANGED <<pendingDrops, clock, events>>
    /\ lastEvent' = <<"other", NULL>>
    /\ UNCHANGED exportVars

\* handleDeleteLayer(id), from the Delete Tattoo button; the render that
\* follows unmounts the TattooLayer of the layers that went, and their
\* listeners stay on window
handleDeleteLayer(id) ==
    /\ layers' = FilterOut(layers, id)
    /\ selectedLayerId' = IF selectedLayerId = id THEN NULL ELSE selectedLayerId
    /\ interactionRef' = Reconciled(interactionRef, layers, FilterOut(layers, id))
    /\ UNCHANGED <<pendingDrops, clock, events>>
    /\ lastEvent' = <<"other", NULL>>
    /\ UNCHANGED exportVars

DeleteButton == PanelShown /\ handleDeleteLayer(layers[selectedLayer].id)

----------------------------------------------------------------------------
\* let minX = Infinity, minY = Infinity, maxX = 0, maxY = 0
InitialBox == [minX |-> Infinity, minY |-> Infinity, maxX |-> 0, maxY |-> 0]

\* no export has been started
ExportIdle ==
    /\ exports = <<>>
    /\ download = <<>>


----------------------------------------------------------------------------
(* Export: handleExport.  It reads the layers of the render it was called  *)
(* in and keeps them in fixedLayers and in the closures of its callbacks,   *)
(* so later edits of the store do not reach a running export, and a second  *)
(* click starts another export beside it.                                   *)

\* layers.filter(l => l.isFixed)
FixedOf(ls) == SelectSeq(ls, LAMBDA l : l.isFixed)

\* l.width * l.scale and l.height * l.scale, in hundredths of a pixel
EffW(l) == l.width * l.scale
EffH(l) == l.height * l.scale

\* the same with minX and minY taken from the first layer alone
RECURSIVE BoundingBoxFirst(_, _, _)
BoundingBoxFirst(fl, k, b) ==
    IF k > Len(fl) THEN b
    ELSE LET l == fl[k]
         IN BoundingBoxFirst(fl, k + 1,
               [ minX |-> IF k = 1 THEN 100 * l.x ELSE b.minX,
                 minY |-> IF k = 1 THEN 100 * l.y ELSE b.minY,
                 maxX |-> Max(b.maxX, 100 * l.x + EffW(l)),
                 maxY |-> Max(b.maxY, 100 * l.y + EffH(l)) ])

\* the forEach of part_000:385-392 over fl[k..], from the accumulator b;
\* positions are brought to hundredths of a pixel
RECURSIVE BoundingBox(_, _, _)
BoundingBox(fl, k, b) ==
    IF k > Len(fl) THEN b
    ELSE LET l == fl[k]
         IN BoundingBox(fl, k + 1,
               [ minX |-> Min(b.minX, 100 * l.x),
                 minY |-> Min(b.minY, 100 * l.y),
                 maxX |-> Max(b.maxX, 100 * l.x + EffW(l)),
                 maxY |-> Max(b.maxY, 100 * l.y + EffH(l)) ])

\* the drawing done by img.onload for fixedLayers[k] (part_000:404-415)
DrawOf(fl, k, b) ==
    LET l == fl[k]
    IN [ layer      |-> k,
         brightness |-> l.brightness,
         contrast   |-> l.contrast,
         tx         |-> 100 * l.x - b.minX + (EffW(l) \div 2),
         ty         |-> 100 * l.y - b.minY + (EffH(l) \div 2),
         rotation   |-> l.rotation,
         w          |-> EffW(l),
         h          |-> EffH(l) ]

\* a call of handleExport that found no fixed layer: alert(), return
Alerted ==
    [ pc          |-> "alerted",
      fixedLayers |-> <<>>,
      box         |-> InitialBox,
      canvas      |-> [width |-> 0, height |-> 0, draws |-> <<>>],
      imgState    |-> <<>> ]

\* canvas.width = n and canvas.height = n: the attributes are whole numbers
\* of pixels, and the assignment drops the fraction of n (n is in hundredths
\* of a pixel and never negative: maxX starts at 0 and ends at or right of
\* minX)
CanvasSize(n) == 100 * (n \div 100)

\* handleExport with the layers ls, up to its await: the filter, the alert,
\* the bounding box, the canvas and one new Image() per fixed layer
Exporting(ls) ==
    LET fl == FixedOf(ls)
        b  == BoundingBox(fl, 1, InitialBox)
    IN IF Len(fl) = 0 THEN Alerted
       ELSE [ pc          |-> "awaiting",
              fixedLayers |-> fl,
              box         |-> b,
              canvas      |-> [ width  |-> CanvasSize(b.maxX - b.minX),
                                height |-> CanvasSize(b.maxY - b.minY),
                                draws  |-> <<>> ],
              imgState    |-> [k \in 1..Len(fl) |-> "loading"] ]

\* a click on Export Collage (part_000:498): handleExport up to its await,
\* with the layers of the render on screen; the click then reaches the
\* onClick of <main> (part_000:475), which clears the selection
HandleExport ==
    /\ Len(exports) < MaxExports
    /\ events < MaxEvents
    /\ events' = events + 1
    /\ exports' = Append(exports, Exporting(layers))
    /\ selectedLayerId' = NULL
    /\ interactionRef' = Selected(NULL)
    /\ UNCHANGED <<layers, pendingDrops, clock, download>>
    /\ lastEvent' = <<"other", NULL>>

\* a join that lets go as soon as one promise is fulfilled
PromiseAny(st) == \E k \in DOMAIN st : st[k] = "resolved"

\* Promise.all(imagePromises) is fulfilled once every promise is
PromiseAll(st) == \A k \in DOMAIN st : st[k] = "resolved"

\* img.onload of the image of fixedLayers[k] of export e: draw, then
\* resolve().  When that fulfils Promise.all, handleExport goes on after its
\* await before any other event is handled (the reactions of the promises
\* are microtasks of this task): toDataURL and link.click().
ImgOnload(e, k) ==
    /\ e \in 1..Len(exports)
    /\ k \in 1..Len(exports[e].fixedLayers)
    /\ exports[e].imgState[k] = "loading"
    /\ LET x == exports[e]
           drawn == [x EXCEPT
                       !.canvas.draws = Append(@, DrawOf(x.fixedLayers, k, x.box)),
                       !.imgState[k] = "resolved"]
       IN IF PromiseAll(drawn.imgState)
          THEN /\ exports' = [exports EXCEPT ![e] = [drawn EXCEPT !.pc = "done"]]
               /\ download' = Append(download, [ name  |-> "tattoo-collage.png",
                                                 image |-> drawn.canvas ])
          ELSE /\ exports' = [exports EXCEPT ![e] = drawn]
               /\ UNCHANGED download
    /\ UNCHANGED editorVars

\* the image of fixedLayers[k] of export e fails to load: img.onerror is not
\* set, so nothing runs and the promise of this layer is never settled
ImgError(e, k) ==
    /\ e \in 1..Len(exports)
    /\ k \in 1..Len(exports[e].fixedLayers)
    /\ exports[e].imgState[k] = "loading"
    /\ exports' = [exports EXCEPT ![e].imgState[k] = "error"]
    /\ UNCHANGED download
    /\ UNCHANGED editorVars

----------------------------------------------------------------------------
(* The asset library.  The assets and the model image are not part of the  *)
(* state: the assets that can be dropped are the inputs of CanvasDrop.  What *)
(* a new asset or a new model image does to the editor is the render of App. *)

\* handleFileUpload(e, type) after its await: setModelImage(dataUrl) or
\* setAssets(prev => [newAsset, ...prev])
handleFileUpload(type) ==
    /\ type \in {"model", "asset"}
    /\ interactionRef' = Rendered(interactionRef)
    /\ UNCHANGED <<layers, selectedLayerId, pendingDrops, clock, events>>
    /\ lastEvent' = <<"other", NULL>>
    /\ UNCHANGED exportVars

\* onImageGenerated(asset) of AIGenerator: setAssets(prev => [asset, ...prev])
onImageGenerated ==
    /\ interactionRef' = Rendered(interactionRef)
    /\ UNCHANGED <<layers, selectedLayerId, pendingDrops, clock, events>>
    /\ lastEvent' = <<"other", NULL>>
    /\ UNCHANGED exportVars

Init ==
    /\ layers = <<>>
    /\ selectedLayerId = NULL
    /\ interactionRef = NoSession
    /\ pendingDrops = <<>>
    /\ clock = 0
    /\ events = 0
    /\ lastEvent = <<"other", NULL>>
    /\ ExportIdle

Next ==
    \/ \E a \in Assets, pt \in DropPoints : CanvasDrop(a, pt)
    \/ \E k \in 1..Len(pendingDrops), now \in ClockReadings : DropResolve(k, now)
    \/ \E k \in 1..Len(pendingDrops) : DropReject(k)
    \/ \E i \in 1..Len(layers), t \in InteractionTypes, pt \in PressPoints : MouseDown(i, t, pt)
    \/ \E pt \in Points : MouseMove(pt)
    \/ MouseUp
    \/ \E i \in 1..Len(layers) : ClickLayer(i)
    \/ ClickCanvas
    \/ \E sv \in SliderInputs : handleSliderChange(sv[1], sv[2])
    \/ FixButton
    \/ DeleteButton
    \/ HandleExport
    \/ \E e \in 1..Len(exports), k \in 1..MaxLayers : ImgOnload(e, k)
    \/ \E e \in 1..Len(exports), k \in 1..MaxLayers : ImgError(e, k)
    \/ \E type \in {"model", "asset"} : handleFileUpload(type)
    \/ onImageGenerated

Spec == Init /\ [][Next]_vars

----------------------------------------------------------------------------
(* The export on its own: one click on Export Collage after another, from  *)
(* each store of ExportStores and each selection.                          *)

\* The store an export starts from: up to MaxExportLayers layers, fixed or
\* not, at positions and scales that drags and sliders produce.
ExportPositions == {<<0, 0>>, <<-200, 0>>, <<100, -225>>}
ExportScales    == {100, 25}
ExportLayer(id, pos, sc, fx) ==
    [NewLayer(id, 1, 75, 75, 200, 200) EXCEPT
        !.x = pos[1], !.y = pos[2], !.scale = sc, !.isFixed = fx]
ExportStores ==
    UNION { { [k \in 1..n |-> ExportLayer(k - 1, g[k][1], g[k][2], g[k][3])] :
                g \in [1..n -> ExportPositions \X ExportScales \X BOOLEAN] } :
            n \in 0..MaxExportLayers }

ExportInit ==
    /\ layers \in ExportStores
    /\ selectedLayerId \in {NULL} \cup {layers[i].id : i \in 1..Len(layers)}
    /\ interactionRef = NoSession
    /\ pendingDrops = <<>>
    /\ clock = 0
    /\ events = 0
    /\ lastEvent = <<"other", NULL>>
    /\ ExportIdle

ExportNext ==
    \/ HandleExport
    \/ \E e \in 1..Len(exports), k \in 1..MaxExportLayers : ImgOnload(e, k)
    \/ \E e \in 1..Len(exports), k \in 1..MaxExportLayers : ImgError(e, k)

ExportSpec == ExportInit /\ [][ExportNext]_vars

----------------
(* Properties of the layer store and the interaction controller (Spec) *)

\* the geometry and filter fields of a layer
Geometry(l) == <<l.x, l.y, l.scale, l.rotation, l.brightness, l.contrast>>

\* partials that the two callers of updateLayer pass
UpdateInputs ==
    { [x |-> 5, y |-> 7], [scale |-> 10], [rotation |-> Deg(90)],
      [brightness |-> 0], [contrast |-> 200] }

\* C1: updateLayer(id, partial) on a fixed layer is a no-op: whatever the
\* partial, the store after the call is the store before it.
C1_UpdateOfFixedIsNoOp ==
    \A i \in 1..Len(layers) :
        layers[i].isFixed =>
            \A upd \in UpdateInputs :
                handleUpdateLayer(layers, layers[i].id, upd) = layers

\* C2: no step of the program changes the geometry or the filter fields of
\* a layer that is fixed, also when the layer was fixed while a drag session
\* on it was in flight (the step compares layers at the same index, so it
\* is about steps that neither add nor remove a layer).
C2_FixedLayerNeverMutated ==
    [][ Len(layers') = Len(layers) =>
            \A i \in 1..Len(layers) :
                layers[i].isFixed => Geometry(layers'[i]) = Geometry(layers[i]) ]_vars

\* C3: the rotation that a pointer-move stores for the layers of a Rotate
\* session lies in [0, 360), which is when its whole part does.
C3_RotateKeepsRange ==
    [][ lastEvent'[1] = "mousemove" =>
            \A k \in 1..Len(interactionRef) :
                interactionRef[k].anchor.type = "rotate" =>
                    \A i \in 1..Len(layers') :
                        layers'[i].id = interactionRef[k].id =>
                            ( /\ 0 <= WholeDegrees(layers'[i].rotation)
                              /\ WholeDegrees(layers'[i].rotation) < 360 ) ]_vars

\* C4: no two layers of the store share an id.
C4_UniqueIds ==
    \A i, j \in 1..Len(layers) : i # j => layers[i].id # layers[j].id

\* C5: at most one interaction session (anchor with its listeners) is active
\* at any time.
C5_SingleSession == Len(interactionRef) <= 1

\* C6: the selection never points at a fixed layer.
C6_SelectionNotFixed ==
    selectedLayer # 0 => ~layers[selectedLayer].isFixed

----------------------------------------------------------------------------
(* Properties of the export (ExportSpec) *)

SetMin(S) == CHOOSE m \in S : \A n \in S : m <= n
SetMax(S) == CHOOSE m \in S : \A n \in S : m >= n

Started(e) == exports[e].pc \in {"awaiting", "done"}

\* C7: the canvas of an export is as wide and as high as the union of the
\* fixed layers' footprints: (maxX - minX, maxY - minY) with the extremes
\* taken over the layers' own corners, in hundredths of a pixel.
C7_CanvasIsUnionOfFootprints ==
    \A e \in 1..Len(exports) :
        Started(e) =>
            LET fl == exports[e].fixedLayers
                K == 1..Len(fl)
                lefts   == {100 * fl[k].x : k \in K}
                tops    == {100 * fl[k].y : k \in K}
                rights  == {100 * fl[k].x + EffW(fl[k]) : k \in K}
                bottoms == {100 * fl[k].y + EffH(fl[k]) : k \in K}
            IN /\ exports[e].canvas.width  = SetMax(rights) - SetMin(lefts)
               /\ exports[e].canvas.height = SetMax(bottoms) - SetMin(tops)

\* C8: the draws of an export are made in store order.
C8_DrawsInStoreOrder ==
    \A e \in 1..Len(exports) :
        \A a, b \in 1..Len(exports[e].canvas.draws) :
            a < b => exports[e].canvas.draws[a].layer < exports[e].canvas.draws[b].layer

\* C9: once every image load of an export has ended and one of them has
\* failed, the export has terminated in failure.
C9_DecodeFailureFailsExport ==
    \A e \in 1..Len(exports) :
        ( /\ Started(e)
          /\ \E k \in 1..Len(exports[e].fixedLayers) : exports[e].imgState[k] = "error"
          /\ \A k \in 1..Len(exports[e].fixedLayers) : exports[e].imgState[k] # "loading" )
        => exports[e].pc = "failed"

\* C10: a delivered file was encoded after the draw of every fixed layer of
\* its export: an export delivers its file with no image still loading or
\* failed and with exactly one draw per fixed layer on its canvas, and every
\* file is the canvas of such an export.
C10_EncodeAfterAllDraws ==
    /\ \A e \in 1..Len(exports) :
          exports[e].pc = "done" =>
             LET n == Len(exports[e].fixedLayers)
             IN /\ \A k \in 1..n : exports[e].imgState[k] = "resolved"
                /\ Len(exports[e].canvas.draws) = n
                /\ {exports[e].canvas.draws[j].layer : j \in 1..n} = 1..n
    /\ \A d \in 1..Len(download) :
          \E e \in 1..Len(exports) :
             exports[e].pc = "done" /\ download[d].image = exports[e].canvas
    /\ Len(download) = Cardinality({e \in 1..Len(exports) : exports[e].pc = "done"})

\* C10 witness: a file was delivered for an export of two layers whose
\* images loaded in the reverse of the store order.
C10_Witness ==
    /\ Len(download) = 1
    /\ \E e \in 1..Len(exports) :
          /\ exports[e].pc = "done"
          /\ Len(exports[e].fixedLayers) >= 2
          /\ download[1].image = exports[e].canvas
    /\ download[1].image.draws[1].layer = 2

\* C11: a click on Export Collage while the store holds no fixed layer ends
\* with the alert: no image is loaded, nothing is drawn, no file is
\* delivered, and the step leaves the layers and the selection as they were.
C11_NoLayersToExport ==
    [][ ( /\ \A i \in 1..Len(layers) : ~layers[i].isFixed
          /\ Len(exports') = Len(exports) + 1 )
        => ( /\ exports'[Len(exports')].pc = "alerted"
             /\ exports'[Len(exports')].imgState = <<>>
             /\ exports'[Len(exports')].canvas.draws = <<>>
             /\ download' = download
             /\ layers' = layers
             /\ selectedLayerId' = selectedLayerId ) ]_vars

----------------------------------------------------------------------------
(* Properties of the layer store and the interaction controller, continued *)

\* C12: the scale of every layer of the store is at least 0.1 (MinScale, in
\* hundredths), whatever the drags of the Scale sessions.
C12_ScaleAtLeastMin ==
    \A i \in 1..Len(layers) : layers[i].scale >= 10

\* C12 witness: a pointer-move of a Scale session that asked for less than
\* 0.1 has just been handled, and the layer of the session holds exactly 0.1.
C12_Witness ==
    /\ lastEvent[1] = "mousemove"
    /\ \E k \in 1..Len(interactionRef) :
          /\ interactionRef[k].inst # 0
          /\ interactionRef[k].anchor.type = "scale"
          /\ interactionRef[k].anchor.originalScale = 100
          /\ layers[interactionRef[k].inst].scale = 10

\* C13: a pointer-down on a layer that is not fixed records the pointer and
\* the position of the layer as the anchor of its controller; every
\* pointer-move at pt then leaves the anchors alone and puts the layer of
\* every Move session at anchor position + (pt - anchor pointer), whatever
\* the moves before it.  With start pointer (100,100) and anchor position
\* (10,10), the pointer at (130,115) gives the position (40,25).
C13_MoveFromAnchor ==
    [][ /\ lastEvent'[1] = "mousedown" =>
             \A i \in 1..Len(layers), t \in InteractionTypes, pt \in PressPoints :
                (MouseDown(i, t, pt) /\ ~layers[i].isFixed) =>
                    \E k \in 1..Len(interactionRef') :
                       LET s == interactionRef'[k].anchor
                       IN /\ interactionRef'[k].inst = i
                          /\ s.startX = pt[1] /\ s.startY = pt[2]
                          /\ s.originalX = layers[i].x /\ s.originalY = layers[i].y
        /\ lastEvent'[1] = "mousemove" =>
             /\ \A pt \in Points :
                  MouseMove(pt) =>
                      /\ Len(interactionRef') = Len(interactionRef)
                      /\ \A k \in 1..Len(interactionRef) :
                            LET s == interactionRef[k].anchor
                                i == interactionRef[k].inst
                            IN /\ interactionRef'[k].anchor = s
                               /\ (s.type = "move" /\ i # 0) =>
                                     /\ layers'[i].x = s.originalX + (pt[1] - s.startX)
                                     /\ layers'[i].y = s.originalY + (pt[2] - s.startY)
             /\ MoveUpdates([ type |-> "move", startX |-> 100, startY |-> 100,
                              originalX |-> 10, originalY |-> 10,
                              originalScale |-> 100, originalRotation |-> 0,
                              centerX |-> 85, centerY |-> 85 ], <<130, 115>>)
                  = [x |-> 40, y |-> 25] ]_vars

----------------------------------------------------------------------------
(* Drop-to-place on its own: drops of the assets of the library, with the  *)
(* geometry of the layers in half pixels, so that initialWidth / 2 and     *)
(* height / 2 are whole numbers.                                           *)

LibraryDrop == \E a \in LibraryAssets, pt \in LibraryDropPoints : CanvasDrop(a, pt)
HalfPixelResolve == \E k \in 1..MaxLayers, now \in ClockReadings : DropResolveU(2, k, now)
LibraryReject == \E k \in 1..MaxLayers : DropReject(k)

DropNext == LibraryDrop \/ HalfPixelResolve \/ LibraryReject

DropSpec == Init /\ [][DropNext]_vars

\* C14: a drop of an asset of natural size (W, H) at (px, py) appends one
\* layer whose base size is (150, 150*H/W), whose position is
\* (px - 150/2, py - (150*H/W)/2), with scale 1, rotation 0, brightness 100,
\* contrast 100 and isFixed false, and changes no layer that was there
\* (geometry in half pixels: width 300 is 150 px); 200x100 at (50,50) gives
\* the base size (150, 75) and the position (-25, 12.5).
C14_DropAppendsOneLayer ==
    [][ /\ \A k \in 1..Len(pendingDrops), now \in ClockReadings :
             DropResolveU(2, k, now) =>
                 LET d == pendingDrops[k]
                     W == NaturalSize(d.asset)[1]
                     H == NaturalSize(d.asset)[2]
                     l == layers'[Len(layers')]
                 IN /\ Len(layers') = Len(layers) + 1
                    /\ SubSeq(layers', 1, Len(layers)) = layers
                    /\ l.width = 2 * 150
                    /\ l.height * W = 2 * 150 * H
                    /\ l.x = 2 * d.px - 150
                    /\ 2 * l.y = 4 * d.py - l.height
                    /\ l.scale = 100 /\ l.rotation = Deg(0)
                    /\ l.brightness = 100 /\ l.contrast = 100
                    /\ l.isFixed = FALSE
        /\ LET l == NewLayerU(2, 0, 2, 50, 50, 200, 100)
           IN /\ <<l.width, l.height>> = <<300, 150>>
              /\ <<l.x, l.y>> = <<-50, 25>> ]_vars

\* C14 witness: the 200x100 asset dropped at (50,50) stands in the store
\* behind a layer of another drop, at (-25, 12.5) with base size (150, 75).
C14_Witness ==
    /\ Len(layers) = 2
    /\ layers[2].src = 2
    /\ <<layers[2].x, layers[2].y>> = <<-50, 25>>
    /\ <<layers[2].width, layers[2].height>> = <<300, 150>>
    /\ layers[1].src # 2

\* the stores that hold the layers of ls in another insertion order
Reorderings(ls) ==
    { [i \in 1..Len(ls) |-> ls[p[i]]] :
        p \in { q \in [1..Len(ls) -> 1..Len(ls)] :
                  \A i, j \in 1..Len(ls) : q[i] = q[j] => i = j } }

\* C15: the canvas of an export is as wide and as high as the canvas the
\* same export computes from the same layers in any other insertion order.
C15_CanvasSizeOrderIndependent ==
    \A e \in 1..Len(exports) :
        Started(e) =>
            \A ls \in Reorderings(layers) :
                /\ exports[e].canvas.width  = Exporting(ls).canvas.width
                /\ exports[e].canvas.height = Exporting(ls).canvas.height

\* C15 witness: an export has sized its canvas for two fixed layers that
\* differ in position on both axes and in scale.
C15_Witness ==
    \E e \in 1..Len(exports) :
        LET fl == exports[e].fixedLayers
        IN /\ Started(e)
           /\ Len(fl) = 2
           /\ fl[1].x # fl[2].x
           /\ fl[1].y # fl[2].y
           /\ fl[1].scale # fl[2].scale

----------------------------------------------------------------------------
(* The layer store on its own: updateLayer, deleteLayer and setFixed called *)
(* with any id, known or not, on stores of up to MaxLayers layers, with or  *)
(* without a Move session on the first layer.  Two layers may carry the     *)
(* same id (two drops in one millisecond); a fix reaches every layer of an  *)
(* id, so a fixed layer never follows a layer of its id that is not fixed.  *)

StoreIds == 0..2               \* 2 is the id of no layer
StoreLayerIds == 0..1
StorePartials == { [f \in {} |-> 0], [x |-> 5, y |-> 7], [scale |-> 10] }

StoreStores ==
    UNION { { ls \in { [k \in 1..n |-> ExportLayer(g[k][1], <<0, 0>>, 100, g[k][2])] :
                         g \in [1..n -> StoreLayerIds \X BOOLEAN] } :
                \A i, j \in 1..n :
                    (i < j /\ ls[i].id = ls[j].id /\ ls[j].isFixed) => ls[i].isFixed } :
            n \in 0..MaxLayers }

StoreInit ==
    /\ layers \in StoreStores
    /\ selectedLayerId \in {NULL} \cup {layers[i].id : i \in 1..Len(layers)}
    /\ interactionRef \in
         {NoSession} \cup
         { << [ inst |-> i, id |-> layers[i].id, listener |-> FALSE,
                anchor |-> Anchor(layers[i], "move", <<100, 100>>) ] >> :
             i \in 1..Min(1, Len(layers)) }
    /\ pendingDrops = <<>>
    /\ clock = 0
    /\ events = 0
    /\ lastEvent = <<"other", NULL>>
    /\ ExportIdle

\* a call of handleUpdateLayer(id, updates)
UpdateLayerCall(id, upd) ==
    /\ layers' = handleUpdateLayer(layers, id, upd)
    /\ interactionRef' = Rendered(interactionRef)
    /\ UNCHANGED <<selectedLayerId, pendingDrops, clock, events>>
    /\ lastEvent' = <<"other", NULL>>
    /\ UNCHANGED exportVars

StoreNext ==
    \/ \E id \in StoreIds, upd \in StorePartials : UpdateLayerCall(id, upd)
    \/ \E id \in StoreIds : handleDeleteLayer(id)
    \/ \E id \in StoreIds : handleFixLayer(id)
    \/ \E pt \in Points : MouseMove(pt)

StoreSpec == StoreInit /\ [][StoreNext]_vars

\* C16: setFixed(id) sets isFixed on the layers with that id and clears the
\* selection only when it is that id; with an id of no layer, or of a layer
\* that is fixed already, it changes neither the layers nor the selection.
C16_SetFixedFrame ==
    [][ \A id \in StoreIds :
          handleFixLayer(id) =>
             IF \E i \in 1..Len(layers) : layers[i].id = id /\ ~layers[i].isFixed
             THEN /\ layers' = [i \in 1..Len(layers) |->
                                  IF layers[i].id = id
                                  THEN [layers[i] EXCEPT !.isFixed = TRUE]
                                  ELSE layers[i]]
                  /\ selectedLayerId' =
                        IF selectedLayerId = id THEN NULL ELSE selectedLayerId
             ELSE /\ layers' = layers
                  /\ selectedLayerId' = selectedLayerId ]_vars

\* C17: updateLayer(id, partial) gives every layer of that id that is not
\* fixed the fields of the partial and keeps its other fields, keeps every
\* layer of another id and the selection; with the empty partial or with an
\* id of no layer the layers are what they were.
C17_UpdateIsPartialMerge ==
    [][ \A id \in StoreIds, upd \in StorePartials :
          UpdateLayerCall(id, upd) =>
             /\ Len(layers') = Len(layers)
             /\ \A i \in 1..Len(layers) :
                   /\ (layers[i].id = id /\ ~layers[i].isFixed) =>
                         /\ DOMAIN layers'[i] = DOMAIN layers[i]
                         /\ \A f \in DOMAIN layers[i] :
                               layers'[i][f] = IF f \in DOMAIN upd THEN upd[f]
                                               ELSE layers[i][f]
                   /\ layers[i].id # id => layers'[i] = layers[i]
             /\ upd = [f \in {} |-> 0] => layers' = layers
             /\ (\A i \in 1..Len(layers) : layers[i].id # id) => layers' = layers
             /\ selectedLayerId' = selectedLayerId ]_vars

\* C17 witness: of two layers with different ids, the first stands where
\* updateLayer(id, {x: 5, y: 7}) put it, with the scale it had, and the
\* second is as it was.
C17_Witness ==
    /\ Len(layers) = 2
    /\ layers[1].id # layers[2].id
    /\ ~layers[1].isFixed
    /\ <<layers[1].x, layers[1].y, layers[1].scale>> = <<5, 7, 100>>
    /\ <<layers[2].x, layers[2].y, layers[2].scale>> = <<0, 0, 100>>

\* C18: deleteLayer(id) keeps the layers of the other ids, in their order
\* and as they were, and no layer of that id; it clears the selection when
\* the selection is that id and keeps it otherwise; with an id of no layer
\* it changes nothing.  A pointer-move adds or removes no layer and changes
\* only layers that a session whose target is still in the store addresses:
\* the sessions whose target was deleted change no layer.
C18_DeleteRemovesById ==
    [][ /\ \A id \in StoreIds :
             handleDeleteLayer(id) =>
                LET keep == {i \in 1..Len(layers) : layers[i].id # id}
                IN /\ Len(layers') = Cardinality(keep)
                   /\ \A i \in keep :
                         layers'[Cardinality({m \in keep : m <= i})] = layers[i]
                   /\ selectedLayerId' =
                         IF selectedLayerId = id THEN NULL ELSE selectedLayerId
                   /\ keep = 1..Len(layers) =>
                         /\ layers' = layers
                         /\ selectedLayerId' = selectedLayerId
        /\ lastEvent'[1] = "mousemove" =>
             \A pt \in Points :
                MouseMove(pt) =>
                   /\ Len(layers') = Len(layers)
                   /\ \A i \in 1..Len(layers) :
                         (\A k \in 1..Len(interactionRef) :
                             \/ interactionRef[k].inst = 0
                             \/ interactionRef[k].id # layers[i].id) =>
                            layers'[i] = layers[i] ]_vars

\* C19: a pointer-down on a fixed layer records no anchor, registers no
\* listener and changes neither the layers nor the selection, so a
\* controller that was Idle is Idle after it; a pointer-move changes only
\* layers whose id a recorded anchor addresses.
C19_FixedPointerDownIsNoOp ==
    [][ /\ lastEvent'[1] = "mousedown" =>
             \A i \in 1..Len(layers), t \in InteractionTypes, pt \in PressPoints :
                (MouseDown(i, t, pt) /\ layers[i].isFixed) =>
                    /\ interactionRef' = interactionRef
                    /\ layers' = layers
                    /\ selectedLayerId' = selectedLayerId
        /\ lastEvent'[1] = "mousemove" =>
             \A pt \in Points :
                MouseMove(pt) =>
                   /\ Len(layers') = Len(layers)
                   /\ \A i \in 1..Len(layers) :
                         (\A k \in 1..Len(interactionRef) :
                             interactionRef[k].id # layers[i].id) =>
                            layers'[i] = layers[i] ]_vars

\* C19 witness: the last pointer event was a pointer-down on a layer that
\* is fixed, and no anchor addresses that layer.
C19_Witness ==
    /\ lastEvent[1] = "mousedown"
    /\ \A k \in 1..Len(interactionRef) : interactionRef[k].id # lastEvent[2]
    /\ \E i \in 1..Len(layers) : layers[i].id = lastEvent[2]
    /\ \A i \in 1..Len(layers) : layers[i].id = lastEvent[2] => layers[i].isFixed

\* C20: a pointer-up discards every anchor and changes no layer; from then
\* on the controllers stay Idle until a pointer-down, and a pointer-move
\* received while they are Idle changes no layer.
C20_PointerUpEndsSession ==
    [][ /\ lastEvent'[1] = "mouseup" =>
             (MouseUp => /\ interactionRef' = NoSession
                         /\ layers' = layers)
        /\ (interactionRef = NoSession /\ lastEvent'[1] # "mousedown") =>
             interactionRef' = NoSession
        /\ (interactionRef = NoSession /\ lastEvent'[1] = "mousemove") =>
             \A pt \in Points : MouseMove(pt) => layers' = layers ]_vars

\* C20 witness: a layer stands where a drag put it, away from where it was
\* dropped, the session is over and the window has handled a pointer-move
\* since.
C20_Witness ==
    /\ lastEvent[1] = "mousemove"
    /\ interactionRef = NoSession
    /\ \E i \in 1..Len(layers) : <<layers[i].x, layers[i].y>> = <<100, 75>>

----------------------------------------------------------------------------
(* The scale handle on its own: one selected layer, pressed on its scale   *)
(* handle at (100,100) and dragged to points in every direction from it,   *)
(* the straight vertical and the straight horizontal included.             *)

ScaleAnchors == {10, 100, 200, 300} \* the Scale slider runs from 0.1 to 3
ScaleStarts  == {<<100, 100>>}
ScalePoints  == { <<100, 100>>, <<100, 160>>, <<100, 40>>, <<130, 140>>, <<70, 60>>,
                  <<130, 60>>, <<70, 140>>, <<200, 100>> }

ScaleInit ==
    /\ layers \in { <<ExportLayer(0, <<0, 0>>, sc, FALSE)>> : sc \in ScaleAnchors }
    /\ selectedLayerId = 0
    /\ interactionRef = NoSession
    /\ pendingDrops = <<>>
    /\ clock = 0
    /\ events = 0
    /\ lastEvent = <<"other", NULL>>
    /\ ExportIdle

ScaleNext ==
    \/ \E pt \in ScaleStarts : MouseDown(1, "scale", pt)
    \/ \E pt \in ScalePoints : MouseMove(pt)
    \/ MouseUp

ScaleSpec == ScaleInit /\ [][ScaleNext]_vars

\* C21: a pointer-move at pt of a Scale session stores a scale that is at
\* least the anchor scale when pt is right of the anchor pointer, and
\* otherwise, also straight above or below it, max(0.1, anchor scale -
\* distance / 100), which is at most the anchor scale.
C21_ScaleDirectionIsHorizontal ==
    [][ lastEvent'[1] = "mousemove" =>
          \A pt \in ScalePoints :
             MouseMove(pt) =>
                \A k \in 1..Len(interactionRef) :
                   ( /\ interactionRef[k].inst # 0
                     /\ interactionRef[k].anchor.type = "scale" ) =>
                       LET s == interactionRef[k].anchor
                           i == interactionRef[k].inst
                           m == Hypot(pt[1] - s.startX, pt[2] - s.startY)
                       IN IF pt[1] > s.startX
                          THEN layers'[i].scale >= s.originalScale
                          ELSE /\ layers'[i].scale =
                                    (IF s.originalScale - m > 10
                                     THEN s.originalScale - m ELSE 10)
                               /\ layers'[i].scale <= s.originalScale ]_vars

\* C21 witness: a Scale session anchored at scale 1 has handled a
\* pointer-move 60 px straight below the anchor pointer, the only point at
\* that distance, and the layer has scale 0.4.
C21_Witness ==
    /\ lastEvent[1] = "mousemove"
    /\ Len(interactionRef) = 1
    /\ interactionRef[1].inst = 1
    /\ interactionRef[1].anchor.type = "scale"
    /\ interactionRef[1].anchor.originalScale = 100
    /\ layers[1].scale = 40

----------------------------------------------------------------------------
\* C22: a step that removes no layer keeps every layer at its index and
\* keeps isFixed on every layer that has it; a step that removes layers
\* removes the layers of one id and keeps the others as they were, in their
\* order.  So a layer that is fixed is fixed in every later state until it
\* is removed.
C22_FixedIsMonotone ==
    [][ IF Len(layers') >= Len(layers)
        THEN \A i \in 1..Len(layers) :
                /\ layers'[i].id = layers[i].id
                /\ layers[i].isFixed => layers'[i].isFixed
        ELSE \E i \in 1..Len(layers) :
                layers' = SelectSeq(layers, LAMBDA l : l.id # layers[i].id) ]_vars

\* C22 witness: a layer that is fixed has a session in flight and the window
\* has just handled a pointer-move, which updated that layer.
C22_Witness ==
    /\ lastEvent[1] = "mousemove"
    /\ \E k \in 1..Len(interactionRef) :
          /\ interactionRef[k].inst # 0
          /\ interactionRef[k].anchor.type = "move"
          /\ layers[interactionRef[k].inst].isFixed
          /\ layers[interactionRef[k].inst].x = interactionRef[k].anchor.originalX + 100

\* C23: the selection is null or the id of a layer in the store.
C23_SelectionNeverDangles ==
    \/ selectedLayerId = NULL
    \/ \E i \in 1..Len(layers) : layers[i].id = selectedLayerId

\* C23 witness: the layer dropped at clock reading 1 was selected by its
\* drop and has been deleted; the layer that is left has been selected
\* since.
C23_Witness ==
    /\ clock = 1
    /\ pendingDrops = <<>>
    /\ Len(layers) = 1
    /\ layers[1].id = 0
    /\ selectedLayerId = 0

====
